---- MODULE Spec2Model ----
(***************************************************************************)
(* Model of stream-polyglot: chunked timeline segmentation and the names   *)
(* of the fragment files (audio_timeline.py), the timeline cache of the    *)
(* video pipeline with its subtitle and dubbing parts and their background *)
(* audio splits, voice cloning from an SRT file (main.py), speaker         *)
(* clustering and reference selection (speaker_clustering.py).             *)
(*                                                                         *)
(* Time is counted in ticks of 0.05 s, the smallest tolerance the          *)
(* segmenter compares against, so 1 s = 20 ticks and every comparison of   *)
(* the source is exact on the grid.                                        *)
(***************************************************************************)
EXTENDS Integers, Sequences, FiniteSets, TLC

VARIABLES
    \* ---- AudioTimeline.segment_with_timeline ----
    total_duration,     \* len(audio_array) / sample_rate
    chunk_duration,     \* argument of segment_with_timeline
    current_time,       \* start of the next window
    timeline,           \* emitted fragments, in emission order
    fragment_id,        \* next fragment id
    incomplete_buffer,  \* carry-over fragment or None
    chunk_start,        \* window of the latest iteration
    chunk_end,
    carried,            \* incomplete_buffer as the latest iteration found it
    detected,           \* the latest oracle response, in absolute time
    metadata,           \* the metadata segment_with_timeline returns, or None
    vad_calls,          \* oracle calls of this run (counted up to CallCountCap)
    \* ---- the file system ----
    fragment_files,     \* names of the files in the fragments directory
    fragments_dir_exists,
    cache_file,         \* timeline.json: None, Corrupt or its content
    \* ---- process_video ----
    run,                \* runs started so far
    cached,             \* what load_timeline_cache returned in this run
    run_timeline,       \* the (timeline, metadata) process_video holds, or None
    exit_code,          \* return value of the latest run, -1 before it returns
    error,              \* what made the latest run fail, "" if nothing
    split_audio,        \* the run was asked to split the audio
    split_task,         \* the background thread: "none", "running",
                        \* "writing_vocals", "writing_accompaniment", "done"
                        \* or "failed"
    split_cache,        \* the files of the split cache directory
    generate_subtitle,  \* the outputs process_video is asked for
    generate_audio,
    stage,              \* the part of process_video at work: "subtitle" or
                        \* "audio"
    split_input,        \* the file the thread of the subtitle part reads
    dub_split_task,     \* the background thread started by the audio part
    dub_split_input,    \* the file that thread reads
    extracted_audio,    \* per extracted-audio file: the part of the run that
                        \* wrote it, "" if the file does not exist
    \* ---- process_trans_voice ----
    subtitles,          \* the entries parse_srt_file returns, with their texts
    matched_segments,   \* what the matching step of the call made, or None
    \* ---- SpeakerClusterer ----
    threshold,          \* self.threshold, in hundredths
    wav_outcome,        \* per fragment: what loading and embedding it yields
    frag_index,         \* position of the extraction loop in the timeline
    embeddings,         \* embeddings of the fragments kept so far
    valid_fragments,    \* their fragment infos, index-aligned with embeddings
    speaker_clusters,   \* the mapping cluster_fragments returns, or None
    ref_args,           \* arguments of the latest reference-selection call
    ref_result,         \* what that call returned
    pc

segVars == <<total_duration, chunk_duration, current_time, timeline, fragment_id,
             incomplete_buffer, chunk_start, chunk_end, carried, detected,
             metadata>>
diskVars == <<fragment_files, fragments_dir_exists, cache_file>>
splitVars == <<split_audio, split_task, split_cache>>
dubVars == <<generate_subtitle, generate_audio, stage, split_input,
             dub_split_task, dub_split_input, extracted_audio>>
voiceVars == <<subtitles, matched_segments>>
runVars == <<run, cached, run_timeline, exit_code, error, splitVars, dubVars,
             voiceVars>>
clusterVars == <<threshold, wav_outcome, frag_index, embeddings, valid_fragments,
                 speaker_clusters, ref_args, ref_result>>
vars == <<segVars, vad_calls, diskVars, runVars, clusterVars, pc>>

None == [none |-> TRUE]
Corrupt == [corrupt |-> TRUE]

\* ---- program constants, in ticks of 0.05 s ----
MergeTolerance == 10
IncompleteTolerance == 2
AudioEndTolerance == 1
SafetyAdvance == 20
DefaultChunkDuration == 600
MinAnalysisLength == 8
DefaultThreshold == 65

\* ---- bounds of the model ----
MaxSegs == 2
ShortChunk == 10
UtteranceLen == 40
CallCountCap == 3
MaxRuns == 2
MaxFrags == 3
ShortFragment == 6

Min(a, b) == IF a < b THEN a ELSE b
Abs(x) == IF x < 0 THEN 0 - x ELSE x
Front(s) == SubSeq(s, 1, Len(s) - 1)
Last(s) == s[Len(s)]

\* The recordings and chunk sizes segmented: the pipeline's 30 s chunks over a
\* recording that ends just after the first window or one utterance after it,
\* and a chunk shorter than the safety advance.
Recordings ==
    {[chunk |-> DefaultChunkDuration, total |-> DefaultChunkDuration + 1],
     [chunk |-> DefaultChunkDuration, total |-> DefaultChunkDuration + UtteranceLen],
     [chunk |-> ShortChunk, total |-> 3 * ShortChunk]}

\* Offsets, relative to the window, at which the oracle may place the start
\* or the end of an interval: both sides of every tolerance of the segmenter.
Grid(d) ==
    {0, MergeTolerance, d - UtteranceLen, d - IncompleteTolerance, d - 1, d}
        \cap (0..d)

Interval(s, e) == [start |-> s, end |-> e]

\* Responses of the voice-activity oracle for a window of d ticks: ordered,
\* non-overlapping intervals with end > start inside the window.
RECURSIVE ResponsesFrom(_, _, _)
ResponsesFrom(d, lo, n) ==
    IF n = 0 THEN {<<>>}
    ELSE {<<>>} \cup
         UNION {UNION {{<<Interval(s, e)>> \o r : r \in ResponsesFrom(d, e, n - 1)}
                       : e \in {x \in Grid(d) : x > s}}
                : s \in {x \in Grid(d) : x >= lo}}

Responses(d) == ResponsesFrom(d, 0, MaxSegs)

\* Variant: the timestamps are left relative to the window.
Shift_Relative(segs, by) == segs

\* seg["start"] += chunk_start; seg["end"] += chunk_start
Shift(segs, by) ==
    [i \in 1..Len(segs) |-> Interval(segs[i].start + by, segs[i].end + by)]

\* f"{t:09.1f}": the time rounded to tenths of a second.  A tick is half a
\* tenth; an odd number of ticks lies halfway and is taken upwards here.
FormatTenths(t) == (t + 1) \div 2

FileName(s, e) == <<FormatTenths(s), FormatTenths(e)>>

is_incomplete_segment(segment, chunk_end_time) ==
    Abs(segment.end - chunk_end_time) < IncompleteTolerance

Fragment(id, seg) ==
    [id |-> id, file |-> FileName(seg.start, seg.end),
     start |-> seg.start, end |-> seg.end]

\* Variant: fragment_id is not advanced between the fragments of a window.
Emit_SameId(id0, segs) == [i \in 1..Len(segs) |-> Fragment(id0, segs[i])]

\* The fragments appended for segs, numbered from id0.
Emit(id0, segs) == [i \in 1..Len(segs) |-> Fragment(id0 + i - 1, segs[i])]

FilesOf(frags) == {frags[i].file : i \in 1..Len(frags)}

\* The window that starts at t.
ChunkEnd(t) == Min(t + chunk_duration, total_duration)

\* Variant: the first interval's start is not taken relative to the window.
ShouldMerge_AbsoluteStart(buf, segs, cs) ==
    /\ buf # None
    /\ segs # <<>>
    /\ segs[1].start < MergeTolerance

\* The pending fragment is continued by the window's first interval.
ShouldMerge(buf, segs, cs) ==
    /\ buf # None
    /\ segs # <<>>
    /\ segs[1].start - cs < MergeTolerance

\* speech_segments after the carry-over branch.
CarryOver(buf, segs, cs) ==
    IF ShouldMerge(buf, segs, cs)
    THEN [segs EXCEPT ![1] = Interval(buf.start, segs[1].end)]
    ELSE segs

\* Variant: a pending fragment that is not continued is dropped.
Flushed_Dropped(buf, segs, cs) == <<>>

\* The pending fragment saved as-is by the carry-over branch.
Flushed(buf, segs, cs) ==
    IF buf # None /\ ~ShouldMerge(buf, segs, cs) THEN <<buf>> ELSE <<>>

\* Variant: the end of the audio is recognised only when reached exactly.
IsAtAudioEnd_NoTolerance(ce) == ce >= total_duration

IsAtAudioEnd(ce) == ce >= total_duration - AudioEndTolerance

\* The last interval is buffered instead of saved.
ShouldDefer(segs, ce) ==
    /\ segs # <<>>
    /\ is_incomplete_segment(Last(segs), ce)
    /\ ~IsAtAudioEnd(ce)

\* Variant: the next window always starts where this one ended.
NextChunkStart_ChunkEnd(segs, ce) == ce

\* next_chunk_start: the deferred interval's start, else chunk_end.
NextChunkStart(segs, ce) ==
    IF ShouldDefer(segs, ce) THEN Last(segs).start ELSE ce

\* current_time after the safety check.
Advance(next_chunk_start, cs) ==
    IF next_chunk_start = cs THEN next_chunk_start + SafetyAdvance
    ELSE next_chunk_start

CountCall(n) == IF n < CallCountCap THEN n + 1 ELSE n

SegStart ==
    /\ current_time = 0
    /\ timeline = <<>>
    /\ fragment_id = 0
    /\ incomplete_buffer = None
    /\ chunk_start = 0
    /\ chunk_end = 0
    /\ carried = None
    /\ detected = <<>>
    /\ metadata = None

\* The extracted-audio files: extracted_audio.wav in the temporary directory
\* of the subtitle part, in that of the audio part, and in temp_audio of the
\* cache directory.
TempPath(part) == IF part = "subtitle" THEN "tmp_subtitle" ELSE "tmp_audio"
CachePath == "cache_temp_audio"
AudioPaths == {TempPath("subtitle"), TempPath("audio"), CachePath}

\* No second part, no thread of it, no extracted audio on disk, and no
\* subtitles to clone.
NoDubbing ==
    /\ generate_subtitle = TRUE
    /\ generate_audio = FALSE
    /\ stage = "subtitle"
    /\ split_input = ""
    /\ dub_split_task = "none"
    /\ dub_split_input = ""
    /\ extracted_audio = [p \in AudioPaths |-> ""]
    /\ subtitles = <<>>
    /\ matched_segments = None

NoRun ==
    /\ run = 0
    /\ cached = None
    /\ run_timeline = None
    /\ exit_code = -1
    /\ error = ""
    /\ vad_calls = 0
    /\ split_audio = FALSE
    /\ split_task = "none"
    /\ split_cache = {}
    /\ NoDubbing

NoClustering ==
    /\ threshold = DefaultThreshold
    /\ wav_outcome = <<>>
    /\ frag_index = 1
    /\ embeddings = <<>>
    /\ valid_fragments = <<>>
    /\ speaker_clusters = None
    /\ ref_args = None
    /\ ref_result = None

EmptyDisk ==
    /\ fragment_files = {}
    /\ fragments_dir_exists = FALSE
    /\ cache_file = None

\* A direct call of AudioTimeline.segment_with_timeline.
SegInit ==
    /\ \E r \in Recordings :
          /\ chunk_duration = r.chunk
          /\ total_duration = r.total
    /\ SegStart
    /\ NoRun
    /\ NoClustering
    /\ fragment_files = {}
    /\ fragments_dir_exists = TRUE
    /\ cache_file = None
    /\ pc = "segment"

\* One iteration of the chunk loop, for the oracle response resp.
ChunkIteration(resp) ==
    LET cs == current_time
        ce == ChunkEnd(current_time)
        shifted == Shift(resp, cs)
        segs == CarryOver(incomplete_buffer, shifted, cs)
        complete == IF ShouldDefer(segs, ce) THEN Front(segs) ELSE segs
        emitted == Emit(fragment_id,
                        Flushed(incomplete_buffer, shifted, cs) \o complete)
    IN  /\ chunk_start' = cs
        /\ chunk_end' = ce
        /\ carried' = incomplete_buffer
        /\ detected' = shifted
        /\ incomplete_buffer' = IF ShouldDefer(segs, ce) THEN Last(segs) ELSE None
        /\ timeline' = timeline \o emitted
        /\ fragment_id' = fragment_id + Len(emitted)
        /\ fragment_files' = fragment_files \cup FilesOf(emitted)
        /\ current_time' = Advance(NextChunkStart(segs, ce), cs)
        /\ vad_calls' = CountCall(vad_calls)
        /\ pc' = "segment"
        /\ UNCHANGED <<total_duration, chunk_duration, metadata,
                       fragments_dir_exists, cache_file, runVars, clusterVars>>

ProcessChunk ==
    /\ pc = "segment"
    /\ current_time < total_duration
    /\ \E resp \in Responses(ChunkEnd(current_time) - current_time) :
          ChunkIteration(resp)

\* detect_speech_in_chunk raises: the exception leaves segment_with_timeline.
VadFails ==
    /\ pc = "segment"
    /\ current_time < total_duration
    /\ vad_calls' = CountCall(vad_calls)
    /\ pc' = "raised"
    /\ UNCHANGED <<segVars, diskVars, runVars, clusterVars>>

\* metadata of segment_with_timeline (the fields that are read later).
SegmentationMetadata(tl) ==
    [total_duration |-> total_duration, fragment_count |-> Len(tl)]

\* After the loop: the final incomplete buffer, then the return.
FinishSegmentation ==
    /\ pc = "segment"
    /\ current_time >= total_duration
    /\ LET final == IF incomplete_buffer # None
                    THEN Emit(fragment_id, <<incomplete_buffer>>) ELSE <<>>
       IN  /\ timeline' = timeline \o final
           /\ fragment_id' = fragment_id + Len(final)
           /\ fragment_files' = fragment_files \cup FilesOf(final)
           /\ metadata' = SegmentationMetadata(timeline \o final)
    /\ incomplete_buffer' = None
    /\ pc' = "segmented"
    /\ UNCHANGED <<total_duration, chunk_duration, current_time, chunk_start,
                   chunk_end, carried, detected, vad_calls,
                   fragments_dir_exists, cache_file, runVars, clusterVars>>

NextSeg == ProcessChunk \/ VadFails \/ FinishSegmentation

Spec == SegInit /\ [][NextSeg]_vars

\* The chunk loop is a sequential loop: it keeps running while it can.
FairSpec == SegInit /\ [][NextSeg]_vars /\ WF_vars(NextSeg)

\* Oracle responses for a first window of 30 s that end with an utterance
\* reaching the boundary at 30.0.
BoundaryResponses ==
    {r \in Responses(DefaultChunkDuration) :
        /\ r # <<>>
        /\ Last(r).start = DefaultChunkDuration - UtteranceLen
        /\ is_incomplete_segment(Last(r), DefaultChunkDuration)}

\* segment_with_timeline with 30 s chunks over a recording of 34 s, after the
\* first iteration of the chunk loop, in which the interval that started at
\* 28.0 was buffered: the loop goes on with the window that starts at 28.0.
FlushInit ==
    /\ chunk_duration = DefaultChunkDuration
    /\ total_duration = DefaultChunkDuration + 2 * UtteranceLen
    /\ \E resp \in BoundaryResponses :
          /\ chunk_start = 0
          /\ chunk_end = ChunkEnd(0)
          /\ carried = None
          /\ detected = resp
          /\ incomplete_buffer = Last(CarryOver(None, resp, 0))
          /\ timeline = Emit(0, Flushed(None, resp, 0) \o Front(resp))
          /\ fragment_id = Len(resp) - 1
          /\ fragment_files = FilesOf(Emit(0, Front(resp)))
          /\ current_time = Advance(NextChunkStart(resp, ChunkEnd(0)), 0)
    /\ metadata = None
    /\ run = 0
    /\ cached = None
    /\ run_timeline = None
    /\ exit_code = -1
    /\ error = ""
    /\ vad_calls = 1
    /\ split_audio = FALSE
    /\ split_task = "none"
    /\ split_cache = {}
    /\ NoDubbing
    /\ NoClustering
    /\ fragments_dir_exists = TRUE
    /\ cache_file = None
    /\ pc = "segment"

FlushSpec == FlushInit /\ [][NextSeg]_vars

(***************************************************************************)
(* The timeline cache and a run of process_video (main.py)                 *)
(***************************************************************************)

\* Variant: only the first fragment's file is looked for.
FirstMissing_FirstOnly(tl, files, i) ==
    IF Len(tl) > 0 /\ tl[1].file \notin files THEN 1 ELSE 0

\* for fragment in timeline: if not os.path.exists(fragment_path): return None
RECURSIVE FirstMissing(_, _, _)
FirstMissing(tl, files, i) ==
    IF i > Len(tl) THEN 0
    ELSE IF tl[i].file \notin files THEN i
    ELSE FirstMissing(tl, files, i + 1)

\* The (timeline, metadata) pair load_timeline_cache returns, or None.
load_timeline_cache(file, files, dir_exists) ==
    IF file = None THEN None                      \* no timeline.json
    ELSE IF file = Corrupt THEN None              \* json.load raises, caught
    ELSE IF ~file.fragments_dir \/ ~dir_exists THEN None
    ELSE IF FirstMissing(file.timeline, files, 1) # 0 THEN None
    ELSE [timeline |-> file.timeline, metadata |-> file.metadata]

\* "if cached_timeline and cached_metadata": both are truthy.
CacheHit(loaded) ==
    /\ loaded # None
    /\ loaded.timeline # <<>>
    /\ loaded.metadata # None

\* metadata of segment_with_timeline with metadata['fragments_dir'] set.
Metadata(tl) ==
    [total_duration |-> total_duration, fragment_count |-> Len(tl),
     fragments_dir |-> TRUE]

\* What save_timeline_cache writes.
CacheData(tl, md) == [timeline |-> tl, metadata |-> md, fragments_dir |-> TRUE]

\* A run of process_video over a recording of one short window.
PipeInit ==
    /\ chunk_duration = DefaultChunkDuration
    /\ total_duration = ShortChunk
    /\ SegStart
    /\ NoRun
    /\ NoClustering
    /\ EmptyDisk
    /\ pc = "idle"

\* The head of process_video up to the first part asked for; without
\* --subtitle and --audio there is nothing to generate and the run returns 1.
StartRun ==
    /\ pc = "idle"
    /\ run < MaxRuns
    /\ run' = run + 1
    /\ cached' = None
    /\ run_timeline' = None
    /\ vad_calls' = 0
    /\ split_audio' \in BOOLEAN
    /\ split_task' = "none"
    /\ split_input' = ""
    /\ dub_split_task' = "none"
    /\ dub_split_input' = ""
    /\ IF generate_subtitle \/ generate_audio
       THEN /\ stage' = IF generate_subtitle THEN "subtitle" ELSE "audio"
            /\ exit_code' = -1
            /\ error' = ""
            /\ pc' = "load"
       ELSE /\ exit_code' = 1
            /\ error' = "nothing"
            /\ pc' = "idle"
            /\ UNCHANGED stage
    /\ UNCHANGED <<segVars, diskVars, split_cache, generate_subtitle,
                   generate_audio, extracted_audio, voiceVars, clusterVars>>

\* split_thread.start() if the thread is created: a thread of the part at
\* work that reads the file at path and that nothing waits for.
StartSplitThread(start, path) ==
    IF start /\ stage = "subtitle"
    THEN /\ split_task' = "running"
         /\ split_input' = path
         /\ UNCHANGED <<dub_split_task, dub_split_input>>
    ELSE IF start
    THEN /\ dub_split_task' = "running"
         /\ dub_split_input' = path
         /\ UNCHANGED <<split_task, split_input>>
    ELSE UNCHANGED <<split_task, split_input, dub_split_task, dub_split_input>>

\* load_timeline_cache and the branch on its result; with a cached timeline
\* and --split the audio is extracted into temp_audio of the cache directory
\* and the split thread is started.
LoadCache ==
    /\ pc = "load"
    /\ LET loaded == load_timeline_cache(cache_file, fragment_files,
                                         fragments_dir_exists)
       IN  /\ cached' = loaded
           /\ IF CacheHit(loaded)
              THEN /\ run_timeline' = loaded
                   /\ pc' = "translate"
                   /\ \E extracted \in BOOLEAN :
                         /\ extracted_audio' =
                               IF split_audio /\ extracted
                               THEN [extracted_audio EXCEPT ![CachePath] = stage]
                               ELSE extracted_audio
                         /\ StartSplitThread(split_audio /\ extracted, CachePath)
                   /\ UNCHANGED fragments_dir_exists
              ELSE /\ fragments_dir_exists' = TRUE
                   /\ pc' = "extract"
                   /\ UNCHANGED <<run_timeline, split_task, split_input,
                                  dub_split_task, dub_split_input,
                                  extracted_audio>>
    /\ UNCHANGED <<segVars, vad_calls, fragment_files, cache_file, run,
                   exit_code, error, split_audio, split_cache,
                   generate_subtitle, generate_audio, stage, voiceVars, clusterVars>>

\* Step 1: extract_audio into a new temporary directory; on failure the run
\* returns 1.  Step 1.5: with --split the split thread is started.
ExtractAudio ==
    /\ pc = "extract"
    /\ \E ok \in BOOLEAN :
          IF ok
          THEN /\ pc' = "segment"
               /\ current_time' = 0
               /\ timeline' = <<>>
               /\ fragment_id' = 0
               /\ incomplete_buffer' = None
               /\ chunk_start' = 0
               /\ chunk_end' = 0
               /\ carried' = None
               /\ detected' = <<>>
               /\ metadata' = None
               /\ extracted_audio' =
                     [extracted_audio EXCEPT ![TempPath(stage)] = stage]
               /\ StartSplitThread(split_audio, TempPath(stage))
               /\ UNCHANGED <<exit_code, error>>
          ELSE /\ pc' = "idle"
               /\ exit_code' = 1
               /\ error' = "extract"
               /\ UNCHANGED <<split_task, split_input, dub_split_task,
                              dub_split_input, extracted_audio>>
               /\ UNCHANGED <<current_time, timeline, fragment_id,
                              incomplete_buffer, chunk_start, chunk_end,
                              carried, detected, metadata>>
    /\ UNCHANGED <<total_duration, chunk_duration, vad_calls, diskVars, run,
                   cached, run_timeline, split_audio, split_cache,
                   generate_subtitle, generate_audio, stage, voiceVars, clusterVars>>

\* The "with tempfile.TemporaryDirectory()" block of the part at work is
\* left: the directory and the extracted audio in it are deleted.
LeaveTemporaryDirectory == [extracted_audio EXCEPT ![TempPath(stage)] = ""]

\* After segmentation: save_timeline_cache, whose result is ignored.  The
\* write succeeds, fails before writing, or leaves an unreadable file.  Then
\* the temporary directory is left.
SaveCache ==
    /\ pc = "segmented"
    /\ run_timeline' = [timeline |-> timeline, metadata |-> Metadata(timeline)]
    /\ cache_file' \in {CacheData(timeline, Metadata(timeline)), cache_file, Corrupt}
    /\ extracted_audio' = LeaveTemporaryDirectory
    /\ pc' = "translate"
    /\ UNCHANGED <<segVars, vad_calls, fragment_files, fragments_dir_exists,
                   run, cached, exit_code, error, splitVars, generate_subtitle,
                   generate_audio, stage, split_input, dub_split_task,
                   dub_split_input, voiceVars, clusterVars>>

\* Variant: the failed window is tried again.
HandleSegmentationError_Retry ==
    /\ pc = "raised"
    /\ pc' = "segment"
    /\ UNCHANGED <<segVars, vad_calls, diskVars, runVars, clusterVars>>

\* except Exception around extraction and segmentation: return 1, which
\* leaves the temporary directory.
HandleSegmentationError ==
    /\ pc = "raised"
    /\ exit_code' = 1
    /\ error' = "vad"
    /\ extracted_audio' = LeaveTemporaryDirectory
    /\ pc' = "idle"
    /\ UNCHANGED <<segVars, vad_calls, diskVars, run, cached, run_timeline,
                   splitVars, generate_subtitle, generate_audio, stage,
                   split_input, dub_split_task, dub_split_input, voiceVars, clusterVars>>

\* Steps 3 and 4 of the part at work: translation of the fragments and the
\* subtitle file or the dubbed audio.  A failure returns 1; after the subtitle
\* part the audio part follows if it was asked for; else the run returns 0.
Translate ==
    /\ pc = "translate"
    /\ \E ok \in BOOLEAN :
          IF ok /\ run_timeline.timeline # <<>>
          THEN IF stage = "subtitle" /\ generate_audio
               THEN /\ stage' = "audio"
                    /\ pc' = "load"
                    /\ UNCHANGED <<exit_code, error>>
               ELSE /\ exit_code' = 0
                    /\ error' = ""
                    /\ pc' = "idle"
                    /\ UNCHANGED stage
          ELSE /\ exit_code' = 1
               /\ error' = IF stage = "subtitle" THEN "subtitles" ELSE "dubbing"
               /\ pc' = "idle"
               /\ UNCHANGED stage
    /\ UNCHANGED <<segVars, vad_calls, diskVars, run, cached, run_timeline,
                   splitVars, generate_subtitle, generate_audio, split_input,
                   dub_split_task, dub_split_input, extracted_audio,
                   voiceVars, clusterVars>>

\* Between two runs a fragment file, or the whole directory, may disappear.
RemoveFragmentFile ==
    /\ pc = "idle"
    /\ run < MaxRuns
    /\ \E f \in fragment_files : fragment_files' = fragment_files \ {f}
    /\ UNCHANGED <<segVars, vad_calls, fragments_dir_exists, cache_file,
                   runVars, clusterVars, pc>>

RemoveFragmentsDir ==
    /\ pc = "idle"
    /\ run < MaxRuns
    /\ fragments_dir_exists
    /\ fragments_dir_exists' = FALSE
    /\ fragment_files' = {}
    /\ UNCHANGED <<segVars, vad_calls, cache_file, runVars, clusterVars, pc>>

\* ---- audio_split_background, on its own thread ----

\* audio_split returns: both parts, or (None, None, None) after an error it
\* caught and printed, which the thread reports as a warning.
SplitAudioReturns ==
    /\ split_task = "running"
    /\ \E ok \in BOOLEAN :
          split_task' = IF ok THEN "writing_vocals" ELSE "failed"
    /\ UNCHANGED <<segVars, vad_calls, diskVars, run, cached, run_timeline,
                   exit_code, error, split_audio, split_cache, dubVars, voiceVars, clusterVars, pc>>

WriteVocals ==
    /\ split_task = "writing_vocals"
    /\ split_cache' = split_cache \cup {"vocals.wav"}
    /\ split_task' = "writing_accompaniment"
    /\ UNCHANGED <<segVars, vad_calls, diskVars, run, cached, run_timeline,
                   exit_code, error, split_audio, dubVars, voiceVars, clusterVars, pc>>

WriteAccompaniment ==
    /\ split_task = "writing_accompaniment"
    /\ split_cache' = split_cache \cup {"accompaniment.wav"}
    /\ split_task' = "done"
    /\ UNCHANGED <<segVars, vad_calls, diskVars, run, cached, run_timeline,
                   exit_code, error, split_audio, dubVars, voiceVars, clusterVars, pc>>

\* Variant: the exception leaves the thread and ends the run with an error.
SplitTaskRaises_Propagates ==
    /\ split_task \in {"running", "writing_vocals", "writing_accompaniment"}
    /\ split_task' = "failed"
    /\ exit_code' = 1
    /\ error' = "split"
    /\ pc' = "idle"
    /\ UNCHANGED <<segVars, vad_calls, diskVars, run, cached, run_timeline,
                   split_audio, split_cache, dubVars, voiceVars, clusterVars>>

\* Any statement of the thread raises: "except Exception" prints the error
\* and the thread ends.
SplitTaskRaises ==
    /\ split_task \in {"running", "writing_vocals", "writing_accompaniment"}
    /\ split_task' = "failed"
    /\ UNCHANGED <<segVars, vad_calls, diskVars, run, cached, run_timeline,
                   exit_code, error, split_audio, split_cache, dubVars, voiceVars, clusterVars, pc>>

\* A step of the background thread.
SplitTaskStep ==
    \/ SplitAudioReturns
    \/ WriteVocals
    \/ WriteAccompaniment
    \/ SplitTaskRaises

\* A step of process_video itself.
PipelineStep ==
    \/ StartRun
    \/ LoadCache
    \/ ExtractAudio
    \/ ProcessChunk
    \/ VadFails
    \/ FinishSegmentation
    \/ SaveCache
    \/ HandleSegmentationError
    \/ Translate

NextPipe ==
    \/ SplitAudioReturns
    \/ WriteVocals
    \/ WriteAccompaniment
    \/ SplitTaskRaises
    \/ StartRun
    \/ LoadCache
    \/ ExtractAudio
    \/ ProcessChunk
    \/ VadFails
    \/ FinishSegmentation
    \/ SaveCache
    \/ HandleSegmentationError
    \/ Translate
    \/ RemoveFragmentFile
    \/ RemoveFragmentsDir

PipeSpec == PipeInit /\ [][NextPipe]_vars

\* ---- audio_split_background on the thread started by the audio part ----

DubSplitAudioReturns ==
    /\ dub_split_task = "running"
    /\ \E ok \in BOOLEAN :
          dub_split_task' = IF ok THEN "writing_vocals" ELSE "failed"
    /\ UNCHANGED <<segVars, vad_calls, diskVars, run, cached, run_timeline,
                   exit_code, error, splitVars, generate_subtitle,
                   generate_audio, stage, split_input, dub_split_input,
                   extracted_audio, voiceVars, clusterVars, pc>>

DubWriteVocals ==
    /\ dub_split_task = "writing_vocals"
    /\ split_cache' = split_cache \cup {"vocals.wav"}
    /\ dub_split_task' = "writing_accompaniment"
    /\ UNCHANGED <<segVars, vad_calls, diskVars, run, cached, run_timeline,
                   exit_code, error, split_audio, split_task,
                   generate_subtitle, generate_audio, stage, split_input,
                   dub_split_input, extracted_audio, voiceVars, clusterVars, pc>>

DubWriteAccompaniment ==
    /\ dub_split_task = "writing_accompaniment"
    /\ split_cache' = split_cache \cup {"accompaniment.wav"}
    /\ dub_split_task' = "done"
    /\ UNCHANGED <<segVars, vad_calls, diskVars, run, cached, run_timeline,
                   exit_code, error, split_audio, split_task,
                   generate_subtitle, generate_audio, stage, split_input,
                   dub_split_input, extracted_audio, voiceVars, clusterVars, pc>>

DubSplitTaskRaises ==
    /\ dub_split_task \in {"running", "writing_vocals", "writing_accompaniment"}
    /\ dub_split_task' = "failed"
    /\ UNCHANGED <<segVars, vad_calls, diskVars, run, cached, run_timeline,
                   exit_code, error, splitVars, generate_subtitle,
                   generate_audio, stage, split_input, dub_split_input,
                   extracted_audio, voiceVars, clusterVars, pc>>

\* Runs of process_video over a recording of one short window, for each
\* choice of --subtitle and --audio, starting without a cache.
DubInit ==
    /\ chunk_duration = DefaultChunkDuration
    /\ total_duration = ShortChunk
    /\ SegStart
    /\ run = 0
    /\ cached = None
    /\ run_timeline = None
    /\ exit_code = -1
    /\ error = ""
    /\ vad_calls = 0
    /\ split_audio = FALSE
    /\ split_task = "none"
    /\ split_cache = {}
    /\ generate_subtitle \in BOOLEAN
    /\ generate_audio \in BOOLEAN
    /\ stage = "subtitle"
    /\ split_input = ""
    /\ dub_split_task = "none"
    /\ dub_split_input = ""
    /\ extracted_audio = [p \in AudioPaths |-> ""]
    /\ subtitles = <<>>
    /\ matched_segments = None
    /\ NoClustering
    /\ EmptyDisk
    /\ pc = "idle"

NextDub ==
    \/ SplitAudioReturns
    \/ WriteVocals
    \/ WriteAccompaniment
    \/ SplitTaskRaises
    \/ DubSplitAudioReturns
    \/ DubWriteVocals
    \/ DubWriteAccompaniment
    \/ DubSplitTaskRaises
    \/ StartRun
    \/ LoadCache
    \/ ExtractAudio
    \/ ProcessChunk
    \/ VadFails
    \/ FinishSegmentation
    \/ SaveCache
    \/ HandleSegmentationError
    \/ Translate

DubSpec == DubInit /\ [][NextDub]_vars

(***************************************************************************)
(* SpeakerClusterer._cluster_with_resemblyzer (speaker_clustering.py)      *)
(***************************************************************************)

\* Voice embeddings: vectors of Euclidean norm 5, so that the cosine
\* similarity of two of them is their dot product / 25.
Embeddings == {<<5, 0>>, <<4, 3>>, <<3, 4>>, <<0, 5>>}

Thresholds == {40, DefaultThreshold, 90}

Dot(u, v) == u[1] * v[1] + u[2] * v[2]

NormSquared == Dot(<<5, 0>>, <<5, 0>>)

\* metric='cosine': 1 - cos(u, v), in units of 1/25.
CosineDistance(u, v) == NormSquared - Dot(u, v)

RECURSIVE SumDistances(_, _)
SumDistances(emb, pairs) ==
    IF pairs = {} THEN 0
    ELSE LET p == CHOOSE x \in pairs : TRUE
         IN  CosineDistance(emb[p[1]], emb[p[2]]) + SumDistances(emb, pairs \ {p})

\* linkage='average': the mean distance over the pairs of two clusters, kept
\* as the fraction num / den.
Linkage(emb, A, B) ==
    [num |-> SumDistances(emb, A \X B), den |-> Cardinality(A) * Cardinality(B)]

Less(x, y) == x.num * y.den < y.num * x.den

\* The merges of agglomerative clustering, closest pair first, down to one
\* cluster: each with its linkage distance and the partition it leaves.
RECURSIVE MergeTree(_, _)
MergeTree(emb, parts) ==
    IF Cardinality(parts) <= 1 THEN <<>>
    ELSE LET pairs == {p \in SUBSET parts : Cardinality(p) = 2}
             D(p) == LET A == CHOOSE x \in p : TRUE
                         B == CHOOSE x \in p : x # A
                     IN  Linkage(emb, A, B)
             best == CHOOSE p \in pairs : \A q \in pairs : ~Less(D(q), D(p))
             merged == (parts \ best) \cup {UNION best}
         IN  <<[distance |-> D(best), parts |-> merged]>> \o MergeTree(emb, merged)

\* Variant: the similarity threshold is passed on as the distance threshold.
DistanceThreshold_Similarity(thr) == thr

\* distance_threshold = 1 - self.threshold, in hundredths.
DistanceThreshold(thr) == 100 - thr

\* distance >= distance_threshold, the distance being num / (25 den).
AtLeastThreshold(d, thr) ==
    d.num * 100 >= DistanceThreshold(thr) * NormSquared * d.den

\* n_clusters_: one more than the merges at or above the threshold.
ClusterCount(emb, thr) ==
    LET tree == MergeTree(emb, {{i} : i \in 1..Len(emb)})
    IN  1 + Cardinality({k \in 1..Len(tree) : AtLeastThreshold(tree[k].distance, thr)})

\* fit_predict: the partition left after all but the last n_clusters_ - 1 merges.
Partition(emb, thr) ==
    LET n == Len(emb)
        tree == MergeTree(emb, {{i} : i \in 1..n})
        done == n - ClusterCount(emb, thr)
    IN  IF done = 0 THEN {{i} : i \in 1..n} ELSE tree[done].parts

SetMin(S) == CHOOSE x \in S : \A y \in S : x <= y

\* labels[idx]: clusters are numbered from 0; the numbers carry no meaning.
Label(parts, i) ==
    LET mine == CHOOSE c \in parts : i \in c
    IN  Cardinality({c \in parts : SetMin(c) < SetMin(mine)})

RECURSIVE Members(_, _, _, _)
Members(frags, parts, label, i) ==
    IF i > Len(frags) THEN <<>>
    ELSE (IF Label(parts, i) = label THEN <<frags[i]>> ELSE <<>>)
         \o Members(frags, parts, label, i + 1)

\* speaker_clusters: for each label the fragment infos carrying it, in order.
GroupByLabel(frags, parts) ==
    [label \in 0..(Cardinality(parts) - 1) |-> Members(frags, parts, label, 1)]

FragInfo(frag) ==
    [fragment_id |-> frag.id, file |-> frag.file, start |-> frag.start,
     end |-> frag.end, duration |-> frag.end - frag.start]

\* Variant: the length check is missing.
Survives_KeepShort(outcome) == outcome.status \in {"ok", "short"}

\* The fragment is kept: its file exists, preprocess_wav and embed_utterance
\* do not raise and the waveform has at least 6400 samples.
Survives(outcome) == outcome.status = "ok"

Outcomes ==
    [status : {"missing", "short", "error"}, embedding : {<<5, 0>>}]
        \cup [status : {"ok"}, embedding : Embeddings]

\* Timelines to cluster: n fragments one utterance apart, each either a full
\* utterance or too short to analyse.
ClusterTimelines ==
    UNION {{[i \in 1..n |->
                Fragment(i - 1, Interval(2 * (i - 1) * UtteranceLen,
                                         2 * (i - 1) * UtteranceLen + len[i]))]
            : len \in [1..n -> {ShortFragment, UtteranceLen}]}
           : n \in 1..MaxFrags}

ClusterInit ==
    /\ chunk_duration = DefaultChunkDuration
    /\ total_duration = 2 * MaxFrags * UtteranceLen
    /\ timeline \in ClusterTimelines
    /\ current_time = total_duration
    /\ fragment_id = Len(timeline)
    /\ incomplete_buffer = None
    /\ chunk_start = 0
    /\ chunk_end = 0
    /\ carried = None
    /\ detected = <<>>
    /\ metadata = None
    /\ NoRun
    /\ fragment_files = {}
    /\ fragments_dir_exists = TRUE
    /\ cache_file = None
    /\ threshold \in Thresholds
    /\ wav_outcome \in [1..Len(timeline) -> Outcomes]
    /\ \A i \in 1..Len(timeline) :
          timeline[i].end - timeline[i].start < MinAnalysisLength
              => ~Survives(wav_outcome[i])
    /\ frag_index = 1
    /\ embeddings = <<>>
    /\ valid_fragments = <<>>
    /\ speaker_clusters = None
    /\ ref_args = None
    /\ ref_result = None
    /\ pc = "embed"

\* One iteration of "for frag in timeline".
EmbedFragment ==
    /\ pc = "embed"
    /\ frag_index <= Len(timeline)
    /\ IF Survives(wav_outcome[frag_index])
       THEN /\ embeddings' = Append(embeddings, wav_outcome[frag_index].embedding)
            /\ valid_fragments' = Append(valid_fragments,
                                         FragInfo(timeline[frag_index]))
       ELSE UNCHANGED <<embeddings, valid_fragments>>
    /\ frag_index' = frag_index + 1
    /\ UNCHANGED <<segVars, vad_calls, diskVars, runVars, threshold, wav_outcome,
                   speaker_clusters, ref_args, ref_result, pc>>

\* After the loop: RuntimeError without embeddings (and sklearn refuses a
\* single sample), else fit_predict and the grouping by label.
FitPredict ==
    /\ pc = "embed"
    /\ frag_index > Len(timeline)
    /\ IF Len(embeddings) < 2
       THEN /\ pc' = "cluster_error"
            /\ UNCHANGED speaker_clusters
       ELSE /\ speaker_clusters' =
                   GroupByLabel(valid_fragments, Partition(embeddings, threshold))
            /\ pc' = "clustered"
    /\ UNCHANGED <<segVars, vad_calls, diskVars, runVars, threshold, wav_outcome,
                   frag_index, embeddings, valid_fragments, ref_args, ref_result>>

NextCluster == EmbedFragment \/ FitPredict

ClusterSpec == ClusterInit /\ [][NextCluster]_vars

(***************************************************************************)
(* Reference selection: select_reference_fragments,                        *)
(* assign_speaker_to_segment and select_reference_for_segment              *)
(* (speaker_clustering.py)                                                 *)
(***************************************************************************)

\* ---- program constants, in ticks of 0.05 s ----
MidpointBonus == 200
MinDuration == 100
TargetDuration == 200
DefaultMaxDuration == 600
ReferenceCap == 3

\* ---- bounds of the model ----
MaxRefFrags == 4
MaxSpeakers == 2
SlotLen == 320

Max(a, b) == IF a > b THEN a ELSE b

\* sorted(seq, key=...): a stable sort by ascending key, keys[i] being the
\* key of seq[i].  Elements with equal keys keep their order.
StableSort(seq, keys) ==
    LET n == Len(seq)
        rank(i) == 1 + Cardinality({j \in 1..n :
                           \/ keys[j] < keys[i]
                           \/ (keys[j] = keys[i] /\ j < i)})
    IN  [p \in 1..n |-> seq[CHOOSE i \in 1..n : rank(i) = p]]

FilesIn(frags) == [i \in 1..Len(frags) |-> frags[i].file]

\* Variant: nothing is taken when the longest fragment is over the limit.
KeepLongest_Never(selected, frag) == selected

\* "if len(selected) == 0: selected.append(frag)" before the break.
KeepLongest(selected, frag) ==
    IF Len(selected) = 0 THEN Append(selected, frag) ELSE selected

\* The loop "for frag in sorted_fragments" from position i on.
RECURSIVE SelectLongest(_, _, _, _, _)
SelectLongest(sorted_fragments, i, selected, total, max_duration) ==
    IF i > Len(sorted_fragments) THEN selected
    ELSE LET frag == sorted_fragments[i]
         IN  IF total + frag.duration > max_duration
             THEN KeepLongest(selected, frag)
             ELSE IF Len(selected) + 1 >= ReferenceCap
             THEN Append(selected, frag)
             ELSE SelectLongest(sorted_fragments, i + 1, Append(selected, frag),
                                total + frag.duration, max_duration)

select_reference_fragments(cluster, max_duration) ==
    LET sorted_fragments ==
            StableSort(cluster, [i \in 1..Len(cluster) |-> 0 - cluster[i].duration])
    IN  FilesIn(SelectLongest(sorted_fragments, 1, <<>>, 0, max_duration))

\* max(0.0, min(seg_end, frag_end) - max(seg_start, frag_start))
OverlapDuration(seg, frag) ==
    Max(0, Min(seg.end, frag.end) - Max(seg.start, frag.start))

\* frag_start <= seg_mid <= frag_end with seg_mid = (seg_start + seg_end) / 2,
\* compared after doubling so that the midpoint needs no half tick.
MidpointInside(seg, frag) ==
    /\ 2 * frag.start <= seg.start + seg.end
    /\ seg.start + seg.end <= 2 * frag.end

\* A fragment's overlap with the midpoint bonus.
FragmentScore(seg, frag) ==
    OverlapDuration(seg, frag) +
        (IF MidpointInside(seg, frag) THEN MidpointBonus ELSE 0)

\* total_overlap of one speaker: the inner loop over its fragments.
RECURSIVE TotalOverlap(_, _, _)
TotalOverlap(seg, fragments, i) ==
    IF i > Len(fragments) THEN 0
    ELSE FragmentScore(seg, fragments[i]) + TotalOverlap(seg, fragments, i + 1)

\* speaker_id = f"speaker_{label}"
SpeakerId(label) == [speaker |-> label]

\* Variant: a later speaker with an equal score replaces the best one.
Better_OrEqual(score, best) == score >= best

\* "if total_overlap > best_overlap"
Better(score, best) == score > best

\* The loop over speaker_clusters.items(), in the order the speakers were
\* inserted, from speaker label on.
RECURSIVE BestSpeaker(_, _, _, _, _)
BestSpeaker(seg, clusters, label, best_speaker, best_overlap) ==
    IF label \notin DOMAIN clusters THEN best_speaker
    ELSE LET total_overlap == TotalOverlap(seg, clusters[label], 1)
         IN  IF Better(total_overlap, best_overlap)
             THEN BestSpeaker(seg, clusters, label + 1, SpeakerId(label),
                              total_overlap)
             ELSE BestSpeaker(seg, clusters, label + 1, best_speaker,
                              best_overlap)

assign_speaker_to_segment(seg, clusters) ==
    BestSpeaker(seg, clusters, 0, None, 0)

\* Step 2: the fragment of the cluster with the best score, or None; a later
\* fragment replaces the best one only with a strictly greater score.
RECURSIVE MatchingFragment(_, _, _, _, _)
MatchingFragment(seg, cluster, i, matching_fragment, best_overlap) ==
    IF i > Len(cluster) THEN matching_fragment
    ELSE LET overlap == FragmentScore(seg, cluster[i])
         IN  IF overlap > best_overlap
             THEN MatchingFragment(seg, cluster, i + 1, cluster[i], overlap)
             ELSE MatchingFragment(seg, cluster, i + 1, matching_fragment,
                                   best_overlap)

\* abs(mid(f) - mid(matching_fragment)), doubled.
MidpointDistance(f, g) == Abs((f.start + f.end) - (g.start + g.end))

\* Variant: the selection starts without the matching fragment.
InitialSelection_Empty(matching_fragment) == <<>>

\* selected = [matching_fragment]
InitialSelection(matching_fragment) == <<matching_fragment>>

\* Variant: fragments are also added to an anchor shorter than the target.
NeedsMore_BelowTarget(frag_duration, min_duration, target_duration) ==
    frag_duration < target_duration

\* Case 2 applies: not "frag_duration >= target_duration", and
\* "frag_duration < min_duration".
NeedsMore(frag_duration, min_duration, target_duration) ==
    /\ ~(frag_duration >= target_duration)
    /\ frag_duration < min_duration

\* Variant: the loop stops after the first fragment it adds.
EnoughReference_AfterOne(total, min_duration) == TRUE

\* "if total_duration >= min_duration: break" after a fragment was added.
EnoughReference(total, min_duration) == total >= min_duration

\* Variant: the matching fragment is not passed over in the loop.
IsAnchor_Never(frag, matching_fragment) == FALSE

\* "if frag == matching_fragment: continue"
IsAnchor(frag, matching_fragment) == frag = matching_fragment

\* Variant: no fragment is too long to be added.
ExceedsLimit_Never(total, target_duration) == FALSE

\* "total_duration + frag['duration'] > target_duration * 1.5", doubled.
ExceedsLimit(total, target_duration) == 2 * total > 3 * target_duration

\* The loop "for frag in sorted_by_distance" from position i on; the result
\* is the selection and its total duration.
\* (nearby is sorted_by_distance, lo and hi are min_duration and
\* target_duration.)
RECURSIVE AddNearby(_, _, _, _, _, _, _)
AddNearby(nearby, i, matching_fragment, selected, total, lo, hi) ==
    IF i > Len(nearby)
    THEN [selected |-> selected, total_duration |-> total]
    ELSE LET frag == nearby[i]
         IN  IF IsAnchor(frag, matching_fragment)
             THEN AddNearby(nearby, i + 1, matching_fragment, selected, total,
                            lo, hi)
             ELSE IF total >= hi
             THEN [selected |-> selected, total_duration |-> total]
             ELSE IF ExceedsLimit(total + frag.duration, hi)
             THEN AddNearby(nearby, i + 1, matching_fragment, selected, total,
                            lo, hi)
             ELSE IF EnoughReference(total + frag.duration, lo)
             THEN [selected |-> Append(selected, frag),
                   total_duration |-> total + frag.duration]
             ELSE AddNearby(nearby, i + 1, matching_fragment,
                            Append(selected, frag), total + frag.duration,
                            lo, hi)

\* Variant: the selection is returned nearest first.
SortByStart_Unsorted(selected) == selected

\* selected.sort(key=lambda f: f['start'])
SortByStart(selected) ==
    StableSort(selected, [i \in 1..Len(selected) |-> selected[i].start])

\* The tuple (speaker_id, fragment files, total duration) returned.
Reference(speaker_id, files, total) ==
    [speaker_id |-> speaker_id, files |-> files, total_duration |-> total]

select_reference_for_segment(seg, clusters, min_duration, target_duration) ==
    LET speaker_id == assign_speaker_to_segment(seg, clusters)
    IN  IF speaker_id = None THEN Reference(None, <<>>, 0)
        ELSE
        LET cluster == clusters[speaker_id.speaker]
            matching_fragment == MatchingFragment(seg, cluster, 1, None, 0)
        IN  IF matching_fragment = None THEN Reference(speaker_id, <<>>, 0)
            ELSE IF NeedsMore(matching_fragment.duration, min_duration,
                              target_duration)
            THEN LET sorted_by_distance ==
                         StableSort(cluster,
                                    [i \in 1..Len(cluster) |->
                                        MidpointDistance(cluster[i],
                                                         matching_fragment)])
                     picked == AddNearby(sorted_by_distance, 1, matching_fragment,
                                         InitialSelection(matching_fragment),
                                         matching_fragment.duration,
                                         min_duration, target_duration)
                 IN  Reference(speaker_id, FilesIn(SortByStart(picked.selected)),
                               picked.total_duration)
            ELSE Reference(speaker_id, <<matching_fragment.file>>,
                           matching_fragment.duration)

\* Fragment durations: 2 s, 6 s and 14 s: below the minimum duration of a
\* reference, between the minimum and the target, and above the target.
FragmentDurations == {40, 120, 280}

\* Timelines behind the clusters: n fragments, one per slot of SlotLen ticks.
RefTimelines ==
    UNION {{[i \in 1..n |->
                Fragment(i - 1, Interval((i - 1) * SlotLen,
                                         (i - 1) * SlotLen + len[i]))]
            : len \in [1..n -> FragmentDurations]}
           : n \in 1..MaxRefFrags}

\* The clusters a labelling of the fragments stands for.
LabelParts(lab) ==
    {{i \in DOMAIN lab : lab[i] = l} : l \in 0..(MaxSpeakers - 1)} \ {{}}

\* Query windows: from and to a point 1 s into a fragment and a point of the
\* silence behind it, 1 s before the next fragment; at most a slot and a
\* second long.
WindowPoints(n) ==
    {(i - 1) * SlotLen + o : i \in 1..n, o \in {20, SlotLen - 20}}

Windows(n) ==
    {w \in [start : WindowPoints(n), end : WindowPoints(n)] :
        w.start <= w.end /\ w.end - w.start <= SlotLen + 20}

MaxDurations == {0, MinDuration, DefaultMaxDuration}

\* The state after cluster_fragments returned a mapping.
RefInit ==
    /\ chunk_duration = DefaultChunkDuration
    /\ total_duration = MaxRefFrags * SlotLen
    /\ timeline \in RefTimelines
    /\ current_time = total_duration
    /\ fragment_id = Len(timeline)
    /\ incomplete_buffer = None
    /\ chunk_start = 0
    /\ chunk_end = 0
    /\ carried = None
    /\ detected = <<>>
    /\ metadata = None
    /\ NoRun
    /\ fragment_files = FilesOf(timeline)
    /\ fragments_dir_exists = TRUE
    /\ cache_file = None
    /\ threshold = DefaultThreshold
    /\ wav_outcome = <<>>
    /\ frag_index = Len(timeline) + 1
    /\ embeddings = <<>>
    /\ valid_fragments = [i \in 1..Len(timeline) |-> FragInfo(timeline[i])]
    /\ \E lab \in [1..Len(timeline) -> 0..(MaxSpeakers - 1)] :
          speaker_clusters = GroupByLabel(valid_fragments, LabelParts(lab))
    /\ ref_args = None
    /\ ref_result = None
    /\ pc = "clustered"

SelectReferenceFragments ==
    /\ pc = "clustered"
    /\ \E label \in DOMAIN speaker_clusters, max_duration \in MaxDurations :
          /\ ref_args' = [cluster |-> label, max_duration |-> max_duration]
          /\ ref_result' = select_reference_fragments(speaker_clusters[label],
                                                      max_duration)
    /\ pc' = "reference_fragments"
    /\ UNCHANGED <<segVars, vad_calls, diskVars, runVars, threshold, wav_outcome,
                   frag_index, embeddings, valid_fragments, speaker_clusters>>

AssignSpeakerToSegment ==
    /\ pc = "clustered"
    /\ \E seg \in Windows(Len(valid_fragments)) :
          /\ ref_args' = [segment_timing |-> seg]
          /\ ref_result' = assign_speaker_to_segment(seg, speaker_clusters)
    /\ pc' = "assigned"
    /\ UNCHANGED <<segVars, vad_calls, diskVars, runVars, threshold, wav_outcome,
                   frag_index, embeddings, valid_fragments, speaker_clusters>>

SelectReferenceForSegment ==
    /\ pc = "clustered"
    /\ \E seg \in Windows(Len(valid_fragments)) :
          /\ ref_args' = [segment_timing |-> seg, min_duration |-> MinDuration,
                          target_duration |-> TargetDuration]
          /\ ref_result' = select_reference_for_segment(seg, speaker_clusters,
                                                        MinDuration, TargetDuration)
    /\ pc' = "reference"
    /\ UNCHANGED <<segVars, vad_calls, diskVars, runVars, threshold, wav_outcome,
                   frag_index, embeddings, valid_fragments, speaker_clusters>>

NextRef ==
    \/ SelectReferenceFragments
    \/ AssignSpeakerToSegment
    \/ SelectReferenceForSegment

RefSpec == RefInit /\ [][NextRef]_vars

(***************************************************************************)
(* Claims about segment_with_timeline                                      *)
(***************************************************************************)

SortedByStart(tl) ==
    \A i \in 1..(Len(tl) - 1) : tl[i].start <= tl[i + 1].start

Overlap(a, b) == a.start < b.end /\ b.start < a.end

NonOverlapping(tl) ==
    \A i, j \in 1..Len(tl) : i # j => ~Overlap(tl[i], tl[j])

\* C1: every returned Timeline is sorted by start and no two distinct
\* fragments overlap, whatever the oracle answered.
C1_SortedNonOverlapping ==
    pc = "segmented" => SortedByStart(timeline) /\ NonOverlapping(timeline)

\* C2: the chunk loop terminates: segment_with_timeline returns or raises.
C2_LoopTerminates == <>(pc \in {"segmented", "raised"})

\* C3: a pending fragment is eventually emitted (or the run is aborted by an
\* oracle failure): the carry-over buffer does not stay occupied forever.
C3_PendingEventuallyEmitted ==
    (incomplete_buffer # None) ~> (incomplete_buffer = None \/ pc = "raised")

\* speech_segments of the latest window after the carry-over branch.
AdjustedSegments == CarryOver(carried, detected, chunk_start)

HasFragment(s, e) ==
    \E i \in 1..Len(timeline) : timeline[i].start = s /\ timeline[i].end = e

\* C4: in a window that ends at or after total_duration - 0.05 the last
\* interval is not deferred: it is the fragment emitted last, and nothing
\* is left pending.
C4_NoDeferralAtAudioEnd ==
    (detected # <<>> /\ chunk_end >= total_duration - AudioEndTolerance) =>
        /\ incomplete_buffer = None
        /\ timeline # <<>>
        /\ Last(timeline).end = Last(detected).end
        /\ Last(timeline).start = Last(AdjustedSegments).start

C4_Witness ==
    /\ pc = "segment"
    /\ detected # <<>>
    /\ chunk_end = total_duration - AudioEndTolerance
    /\ Last(detected).end = chunk_end
    /\ Last(timeline).end = chunk_end

\* The carry-over scenario: 30 s chunks, the first window (ending at 30.0)
\* deferred the interval [28.0, 30.0), and the oracle's first interval for the
\* second window is [0, len) relative to that window.
CarryOverScenario(len) ==
    /\ chunk_duration = DefaultChunkDuration
    /\ vad_calls = 2
    /\ carried = Interval(DefaultChunkDuration - UtteranceLen, DefaultChunkDuration)
    /\ detected # <<>>
    /\ detected[1] = Interval(chunk_start, chunk_start + len)

OverlappingFragments(s, e) ==
    {i \in 1..Len(timeline) : Overlap(timeline[i], Interval(s, e))}

\* C5 as stated: the merged fragment is [28.0, 32.0).
C5_MergedTo32 ==
    CarryOverScenario(UtteranceLen) =>
        HasFragment(DefaultChunkDuration - UtteranceLen,
                    DefaultChunkDuration + UtteranceLen)

\* C5 amended: the second window starts at 28.0, so [0.0, 2.0) relative is
\* [28.0, 30.0): the Timeline holds the single merged fragment [28.0, 30.0),
\* not two fragments; it holds the single fragment [28.0, 32.0) when the
\* first interval of the second window is [0.0, 4.0) relative.
C5_MergedFragment ==
    /\ CarryOverScenario(UtteranceLen) =>
          /\ chunk_start = DefaultChunkDuration - UtteranceLen
          /\ HasFragment(DefaultChunkDuration - UtteranceLen, DefaultChunkDuration)
          /\ Cardinality(OverlappingFragments(DefaultChunkDuration - UtteranceLen,
                                              DefaultChunkDuration)) = 1
    /\ CarryOverScenario(2 * UtteranceLen) =>
          /\ HasFragment(DefaultChunkDuration - UtteranceLen,
                         DefaultChunkDuration + UtteranceLen)
          /\ Cardinality(OverlappingFragments(DefaultChunkDuration - UtteranceLen,
                                              DefaultChunkDuration + UtteranceLen)) = 1

C5_Witness ==
    /\ CarryOverScenario(UtteranceLen)
    /\ pc = "segmented"
    /\ HasFragment(DefaultChunkDuration - UtteranceLen, DefaultChunkDuration)

(***************************************************************************)
(* Claims about the timeline cache                                         *)
(***************************************************************************)

\* timeline.json is readable and every fragment file it names is on disk.
CacheIntact ==
    /\ cache_file \notin {None, Corrupt}
    /\ fragments_dir_exists
    /\ \A i \in 1..Len(cache_file.timeline) :
          cache_file.timeline[i].file \in fragment_files

\* C6: a run that finds an intact cache takes Timeline and metadata from it
\* and skips segmentation, so it makes no oracle call.
C6_IntactCacheIsReused ==
    [][(pc = "load" /\ CacheIntact) =>
          /\ pc' = "translate"
          /\ run_timeline' # None
          /\ run_timeline'.timeline = cache_file.timeline
          /\ run_timeline'.metadata = cache_file.metadata
          /\ vad_calls' = 0]_vars

\* C7: load_timeline_cache returns a Timeline exactly when timeline.json, the
\* fragments directory and every referenced fragment file exist; otherwise it
\* returns none and the caller goes on to re-segment.
C7_LoadValidatesFragments ==
    [][pc = "load" =>
          /\ (cached' # None) <=> CacheIntact
          /\ cached' # None =>
                /\ cached'.timeline = cache_file.timeline
                /\ \A i \in 1..Len(cached'.timeline) :
                      cached'.timeline[i].file \in fragment_files
          /\ cached' = None => pc' = "extract"
          /\ pc' \in {"translate", "extract"}]_vars

C7_Witness ==
    /\ pc = "extract"
    /\ cached = None
    /\ cache_file \notin {None, Corrupt}
    /\ fragments_dir_exists
    /\ Len(cache_file.timeline) = 2
    /\ cache_file.timeline[1].file \in fragment_files
    /\ cache_file.timeline[2].file \notin fragment_files

\* C8: after the oracle call failed the run does nothing but return 1: no
\* further oracle call, no Timeline handed to the caller, no cache written.
\* (Steps of the background thread leave the run where it is.)
C8_VadFailureIsFatal ==
    [][pc = "raised" =>
          /\ pc' # pc =>
                /\ pc' = "idle"
                /\ exit_code' = 1
                /\ error' = "vad"
          /\ vad_calls' = vad_calls
          /\ run_timeline' = None
          /\ cache_file' = cache_file]_vars

C8_Witness ==
    /\ pc = "idle"
    /\ error = "vad"
    /\ exit_code = 1
    /\ vad_calls = 1
    /\ run_timeline = None
    /\ cache_file = None

(***************************************************************************)
(* Claims about cluster_fragments                                          *)
(***************************************************************************)

\* The places (label, position) of the mapping that hold fragment id.
Places(id) ==
    {p \in UNION {{<<l, k>> : k \in 1..Len(speaker_clusters[l])}
                  : l \in DOMAIN speaker_clusters} :
        speaker_clusters[p[1]][p[2]].fragment_id = id}

\* C9: in the returned mapping a discarded fragment is in no cluster and a
\* surviving fragment is in exactly one.
C9_ClustersPartitionSurvivors ==
    pc = "clustered" =>
        \A i \in 1..Len(timeline) :
            Cardinality(Places(timeline[i].id)) =
                (IF wav_outcome[i].status = "ok" THEN 1 ELSE 0)

C9_Witness ==
    /\ pc = "clustered"
    /\ Cardinality(DOMAIN speaker_clusters) = 2
    /\ \E i \in 1..Len(timeline) : wav_outcome[i].status = "short"

ClusterIndices(label) ==
    {i \in 1..Len(valid_fragments) :
        \E k \in 1..Len(speaker_clusters[label]) :
            speaker_clusters[label][k] = valid_fragments[i]}

Range(seq) == {seq[i] : i \in 1..Len(seq)}

RECURSIVE SumOfDurations(_)
SumOfDurations(frags) ==
    IF frags = {} THEN 0
    ELSE LET f == CHOOSE x \in frags : TRUE
         IN  f.duration + SumOfDurations(frags \ {f})

\* The fragment of the Timeline stored in file.
FragmentOfFile(file) ==
    CHOOSE f \in Range(valid_fragments) : f.file = file

\* The fragments whose files a call returned, in the order returned.
Returned(files) == [p \in 1..Len(files) |-> FragmentOfFile(files[p])]

\* C12: for a non-empty cluster select_reference_fragments returns 1 to 3
\* files of distinct fragments of the cluster, in decreasing-duration order,
\* no fragment left out being longer than one returned; their total duration
\* is at most max_duration unless the result is the single longest fragment.
C12_LongestFragments ==
    pc = "reference_fragments" =>
        LET cluster == speaker_clusters[ref_args.cluster]
            chosen == Returned(ref_result)
            n == Len(ref_result)
        IN  /\ n >= 1
            /\ n <= 3
            /\ \A p \in 1..n : chosen[p] \in Range(cluster)
            /\ \A p, q \in 1..n :
                  p < q => /\ chosen[p] # chosen[q]
                           /\ chosen[p].duration >= chosen[q].duration
            /\ \A f \in Range(cluster) \ Range(chosen) :
                  \A p \in 1..n : f.duration <= chosen[p].duration
            /\ \/ SumOfDurations(Range(chosen)) <= ref_args.max_duration
               \/ n = 1

C12_Witness ==
    /\ pc = "reference_fragments"
    /\ Len(speaker_clusters[ref_args.cluster]) = 4
    /\ ref_args.max_duration = DefaultMaxDuration
    /\ Len(ref_result) = 3
    /\ Returned(ref_result)[1].duration > Returned(ref_result)[3].duration
    /\ speaker_clusters[ref_args.cluster][1].file \notin Range(ref_result)

\* A speaker's score for the window of the latest call.
SpeakerScore(label) ==
    TotalOverlap(ref_args.segment_timing, speaker_clusters[label], 1)

\* C13: assign_speaker_to_segment returns a speaker whose score is the
\* maximum over all speakers, and none exactly when no speaker has a
\* positive score.
C13_BestScoringSpeaker ==
    pc = "assigned" =>
        /\ ref_result # None =>
              /\ ref_result.speaker \in DOMAIN speaker_clusters
              /\ \A l \in DOMAIN speaker_clusters :
                    SpeakerScore(l) <= SpeakerScore(ref_result.speaker)
        /\ ref_result = None <=>
              \A l \in DOMAIN speaker_clusters : SpeakerScore(l) <= 0

C13_Witness ==
    /\ pc = "assigned"
    /\ ref_result = SpeakerId(1)
    /\ SpeakerScore(0) > 0
    /\ SpeakerScore(0) < MidpointBonus
    /\ SpeakerScore(1) > SpeakerScore(0)

\* select_reference_for_segment returned with a speaker.
Resolved == pc = "reference" /\ ref_result.speaker_id # None

\* The cluster of the speaker returned.
ResolvedCluster == speaker_clusters[ref_result.speaker_id.speaker]

\* The anchor: the fragment of the resolved speaker's cluster with the highest
\* overlap-plus-midpoint-bonus score for the window, the first of them if
\* several share it.
Anchor ==
    LET c == ResolvedCluster
        score(i) == FragmentScore(ref_args.segment_timing, c[i])
        first == CHOOSE i \in 1..Len(c) :
                     /\ \A j \in 1..Len(c) : score(j) <= score(i)
                     /\ \A j \in 1..(i - 1) : score(j) < score(i)
    IN  c[first]

\* C14: whenever select_reference_for_segment returns a speaker, the file
\* list returned is not empty and holds the anchor's file (and only files of
\* that speaker's cluster).
C14_AnchorIncluded ==
    Resolved =>
        /\ ref_result.files # <<>>
        /\ Anchor.file \in Range(ref_result.files)
        /\ \A p \in 1..Len(ref_result.files) :
              FragmentOfFile(ref_result.files[p]) \in Range(ResolvedCluster)

C14_Witness ==
    /\ Resolved
    /\ Len(ref_result.files) = 3
    /\ ref_result.files[3] = Anchor.file
    /\ FragmentScore(ref_args.segment_timing, Anchor) < MidpointBonus

\* C15: the file list select_reference_for_segment returns is in
\* chronological order: the fragments' start times do not decrease.
C15_ChronologicalFiles ==
    pc = "reference" =>
        \A p \in 1..(Len(ref_result.files) - 1) :
            FragmentOfFile(ref_result.files[p]).start
                <= FragmentOfFile(ref_result.files[p + 1]).start

\* The fragment nearest to the anchor precedes it in time, and the nearest
\* fragment after the anchor was added as well.
C15_Witness ==
    /\ Resolved
    /\ Len(ref_result.files) = 3
    /\ ref_result.files[2] = Anchor.file
    /\ MidpointDistance(FragmentOfFile(ref_result.files[1]), Anchor)
          < MidpointDistance(FragmentOfFile(ref_result.files[3]), Anchor)

\* C16: an anchor of at least min_duration, below the target duration or
\* not, is returned alone with its own duration as the total; more than one
\* file is returned only for an anchor shorter than min_duration.
C16_LongAnchorAlone ==
    Resolved =>
        /\ Anchor.duration >= ref_args.min_duration =>
              /\ ref_result.files = <<Anchor.file>>
              /\ ref_result.total_duration = Anchor.duration
        /\ Len(ref_result.files) > 1 => Anchor.duration < ref_args.min_duration

C16_Witness ==
    /\ Resolved
    /\ Anchor.duration >= ref_args.min_duration
    /\ Anchor.duration < ref_args.target_duration
    /\ Len(ResolvedCluster) = 3
    /\ ref_result.files = <<Anchor.file>>
    /\ ref_result.total_duration = Anchor.duration

\* C17 as stated: with an anchor shorter than min_duration and a cluster of
\* at least 2 fragments that total min_duration or more, the total duration
\* returned is at least min_duration.
C17_FloorOverWholeCluster ==
    (/\ Resolved
     /\ Anchor.duration < ref_args.min_duration
     /\ Len(ResolvedCluster) >= 2
     /\ SumOfDurations(Range(ResolvedCluster)) >= ref_args.min_duration)
        => ref_result.total_duration >= ref_args.min_duration

\* The anchor and the other fragments of its cluster no longer than the
\* target duration: none of them can push the running total, which is below
\* min_duration, past 1.5 times the target.
WithinReach ==
    {f \in Range(ResolvedCluster) :
        f = Anchor \/ f.duration <= ref_args.target_duration}

\* C17 amended: with an anchor shorter than min_duration, if the anchor and
\* the other fragments of the cluster that are no longer than the target
\* duration total min_duration or more, the total duration returned is at
\* least min_duration and it is the total of the fragments returned; a
\* fragment that would push the total past 1.5 times the target is skipped,
\* so that the total may stay below min_duration otherwise.
C17_FloorWithinReach ==
    (Resolved /\ Anchor.duration < ref_args.min_duration) =>
        /\ ref_result.total_duration = SumOfDurations(Range(Returned(ref_result.files)))
        /\ 2 * ref_result.total_duration <= 3 * ref_args.target_duration
        /\ (Cardinality(WithinReach) >= 2
             /\ SumOfDurations(WithinReach) >= ref_args.min_duration)
                => ref_result.total_duration >= ref_args.min_duration

C17_Witness ==
    /\ Resolved
    /\ Anchor.duration < ref_args.min_duration
    /\ Len(ResolvedCluster) = 4
    /\ Cardinality(WithinReach) = 3
    /\ Len(ref_result.files) = 3
    /\ ref_result.total_duration >= ref_args.min_duration

(***************************************************************************)
(* Claims about the background audio split                                 *)
(***************************************************************************)

\* process_video has a step to take unless it has returned for the last time.
PipelineCanStep ==
    (pc # "idle" \/ run < MaxRuns) => ENABLED PipelineStep

\* The step is one of the background thread: the thread was at work and is
\* further on, done or failed.
SplitTaskActed ==
    /\ split_task \in {"running", "writing_vocals", "writing_accompaniment"}
    /\ split_task' \in {"writing_vocals", "writing_accompaniment", "done", "failed"}
    /\ split_task' # split_task

C19_IdsCountEmission ==
    /\ \A i \in 1..Len(timeline) : timeline[i].id = i - 1
    /\ pc = "segmented" =>
          /\ metadata # None
          /\ metadata.fragment_count = Len(timeline)

C19_Witness ==
    /\ pc = "segmented"
    /\ Len(timeline) = 3
    /\ timeline[3].id = 2
    /\ metadata.fragment_count = 3
    /\ carried # None

\* The latest window found a pending fragment and did not continue it: the
\* window has no interval, or its first interval starts 0.5 s or more after
\* chunk_start.
FlushCase ==
    /\ carried # None
    /\ \/ detected = <<>>
       \/ detected[1].start - chunk_start >= MergeTolerance

\* Pending [28.0, 30.0), and the window's first interval starts at 32.0.
FlushExample ==
    /\ carried = Interval(DefaultChunkDuration - UtteranceLen, DefaultChunkDuration)
    /\ detected # <<>>
    /\ detected[1].start = DefaultChunkDuration + UtteranceLen

\* C20: when a window finds a pending fragment and has no interval, or its
\* first interval starts 0.5 s or more after chunk_start, the pending fragment
\* is emitted unchanged as a fragment of its own right before the intervals of
\* the window, and it is no longer pending.  With [28.0, 30.0) pending and a
\* first interval starting at 32.0 the Timeline holds [28.0, 30.0) and a
\* fragment starting at 32.0, and no fragment joining the two.
C20_FlushedBeforeWindow ==
    /\ (pc = "segment" /\ FlushCase) =>
          LET n == Len(detected) - (IF incomplete_buffer = None THEN 0 ELSE 1)
              k == Len(timeline) - n
          IN  /\ k >= 1
              /\ timeline[k].start = carried.start
              /\ timeline[k].end = carried.end
              /\ \A j \in 1..n :
                    /\ timeline[k + j].start = detected[j].start
                    /\ timeline[k + j].end = detected[j].end
              /\ incomplete_buffer # carried
              /\ incomplete_buffer # None => incomplete_buffer = Last(detected)
    /\ (pc \in {"segment", "segmented"} /\ FlushExample) =>
          /\ HasFragment(DefaultChunkDuration - UtteranceLen, DefaultChunkDuration)
          /\ \E i \in 1..Len(timeline) :
                timeline[i].start = DefaultChunkDuration + UtteranceLen
          /\ ~\E i \in 1..Len(timeline) :
                /\ timeline[i].start = DefaultChunkDuration - UtteranceLen
                /\ timeline[i].end > DefaultChunkDuration

C20_Witness ==
    /\ pc = "segmented"
    /\ FlushExample
    /\ Len(timeline) = 3
    /\ timeline[2].start = DefaultChunkDuration - UtteranceLen
    /\ timeline[2].end = DefaultChunkDuration
    /\ timeline[3].start = DefaultChunkDuration + UtteranceLen

(***************************************************************************)
(* Claims about deferral and the rewind of the window start                *)
(***************************************************************************)

\* The (start, end) pairs of a list of fragments.
Bounds(frags) == [i \in 1..Len(frags) |-> Interval(frags[i].start, frags[i].end)]

\* The step is an iteration of the chunk loop.
IsChunkIteration == pc = "segment" /\ pc' = "segment" /\ current_time' # current_time

\* The fragments the step appended to the Timeline.
Appended == SubSeq(timeline', Len(timeline) + 1, Len(timeline'))

\* One iteration of the chunk loop defers at most the last interval after the
\* carry-over adjustment, exactly when it ends less than 0.1 s from chunk_end
\* and chunk_end < total_duration - 0.05; the deferred interval becomes the
\* pending fragment and is not among the fragments the window emits; the
\* next window starts at next_start if an interval is deferred and at
\* chunk_end otherwise.
DeferralRule(next_start) ==
    LET segs == CarryOver(incomplete_buffer, detected', chunk_start')
        flushed == Flushed(incomplete_buffer, detected', chunk_start')
        deferred == /\ segs # <<>>
                    /\ Abs(Last(segs).end - chunk_end') < IncompleteTolerance
                    /\ chunk_end' < total_duration - AudioEndTolerance
    IN  /\ SubSeq(timeline', 1, Len(timeline)) = timeline
        /\ IF deferred
           THEN /\ incomplete_buffer' = Last(segs)
                /\ Bounds(Appended) = flushed \o Front(segs)
                /\ current_time' = next_start
           ELSE /\ incomplete_buffer' = None
                /\ Bounds(Appended) = flushed \o segs
                /\ current_time' = chunk_end'

\* C21 as stated: ... and after a deferral the next window starts at the
\* deferred interval's own start.
C21_NextWindowAtDeferredStart ==
    [][IsChunkIteration => DeferralRule(incomplete_buffer'.start)]_vars

\* C21 amended: in each window at most the last interval after carry-over
\* adjustment is deferred, exactly when it ends less than 0.1 s from chunk_end
\* and chunk_end < total_duration - 0.05; it is removed from the window's
\* emitted list; the next window starts at the deferred interval's own start
\* unless that is the start of the current window, in which case it starts
\* 1 s after it; without a deferral the next window starts at chunk_end.
C21_NextWindowAtDeferredStartOrAdvanced ==
    [][IsChunkIteration =>
          DeferralRule(IF incomplete_buffer'.start = chunk_start'
                       THEN chunk_start' + SafetyAdvance
                       ELSE incomplete_buffer'.start)]_vars

\* A window that emitted its first interval, deferred its second one and is
\* followed by a window that starts at the deferred interval's start.
C21_Witness ==
    /\ pc = "segment"
    /\ Len(detected) = 2
    /\ incomplete_buffer = detected[2]
    /\ Last(timeline).end = detected[1].end
    /\ current_time = detected[2].start
    /\ current_time > chunk_start
    /\ current_time < chunk_end

\* The latest window started at the start of the interval deferred before it:
\* the window start was rewound into the window before.
Rewound == carried # None /\ chunk_start = carried.start

\* The step rewinds: it defers an interval and the next window starts at the
\* deferred interval's start, before the end of the current window.
Rewinds ==
    /\ pc = "segment"
    /\ incomplete_buffer # None
    /\ current_time = incomplete_buffer.start
    /\ current_time < chunk_end

\* C22: rewinding the window start to a deferred interval's start never
\* duplicates an emitted fragment.  At every rewind the fragments emitted so
\* far end at or before the new window start; the returned Timeline has no two
\* fragments with the same bounds; and a pending fragment that the rewound
\* window flushed is not detected again in that window, that is, no interval
\* of the window lies over the time span of the flushed fragment.
C22_RewindNeverDuplicates ==
    /\ Rewinds => \A i \in 1..Len(timeline) : timeline[i].end <= current_time
    /\ pc = "segmented" =>
          \A i, j \in 1..Len(timeline) :
              i # j => Bounds(<<timeline[i]>>) # Bounds(<<timeline[j]>>)
    /\ (pc = "segment" /\ Rewound /\ FlushCase) =>
          \A k \in 1..Len(detected) : ~Overlap(detected[k], carried)

\* C23: with oracle intervals that satisfy end > start, every fragment of the
\* Timeline, at its return and while it is built, satisfies end > start, and
\* so does the pending fragment; this includes a fragment that runs from the
\* start of the pending fragment to the end of the next window's first
\* interval.
C23_EndAfterStart ==
    /\ \A i \in 1..Len(timeline) : timeline[i].end > timeline[i].start
    /\ incomplete_buffer # None => incomplete_buffer.end > incomplete_buffer.start

\* A returned Timeline whose last fragment was merged from the pending
\* fragment and the first interval of the last window.
C23_Witness ==
    /\ pc = "segmented"
    /\ carried # None
    /\ detected # <<>>
    /\ detected[1].start - chunk_start < MergeTolerance
    /\ detected[1].end > carried.end
    /\ Last(timeline).start = carried.start
    /\ Last(timeline).end = detected[1].end

(***************************************************************************)
(* Further claims about reference selection                                *)
(***************************************************************************)

\* Positions, in the resolved speaker's cluster, of the fragments other than
\* the anchor.
OtherPositions == {i \in 1..Len(ResolvedCluster) : ResolvedCluster[i] # Anchor}

\* The fragment at position i is considered before the one at position j: its
\* midpoint is nearer to the anchor's, or as near and it comes first in the
\* cluster.
NearerToAnchor(i, j) ==
    LET di == MidpointDistance(ResolvedCluster[i], Anchor)
        dj == MidpointDistance(ResolvedCluster[j], Anchor)
    IN  di < dj \/ (di = dj /\ i < j)

\* Positions of the other fragments whose files were returned.
ChosenPositions ==
    {i \in OtherPositions : ResolvedCluster[i].file \in Range(ref_result.files)}

\* The running total when the fragment at position i is considered: the
\* anchor and the fragments returned that were considered before it.
RunningTotal(i) ==
    Anchor.duration +
        SumOfDurations({ResolvedCluster[j] :
                           j \in {k \in ChosenPositions : NearerToAnchor(k, i)}})

\* C24: with an anchor shorter than min_duration the other fragments of the
\* speaker are considered nearest midpoint first; one is added exactly when
\* the running total has not reached min_duration yet and adding it does not
\* push the total past 1.5 times target_duration; the total duration returned
\* is at most 1.5 times target_duration.
C24_NearestFirstWithinLimit ==
    (Resolved /\ Anchor.duration < ref_args.min_duration) =>
        /\ \A i \in OtherPositions :
              i \in ChosenPositions <=>
                  /\ RunningTotal(i) < ref_args.min_duration
                  /\ 2 * (RunningTotal(i) + ResolvedCluster[i].duration)
                        <= 3 * ref_args.target_duration
        /\ 2 * ref_result.total_duration <= 3 * ref_args.target_duration

\* The nearest other fragment was skipped as too long, a farther one was
\* added, and the total reached min_duration.
C24_Witness ==
    /\ Resolved
    /\ Anchor.duration < ref_args.min_duration
    /\ ref_result.total_duration >= ref_args.min_duration
    /\ \E i \in OtherPositions \ ChosenPositions :
          /\ 2 * (Anchor.duration + ResolvedCluster[i].duration)
                > 3 * ref_args.target_duration
          /\ \E j \in ChosenPositions : NearerToAnchor(i, j)

\* The durations of a list of fragments added up, from position i on.
RECURSIVE TotalOfList(_, _)
TotalOfList(frags, i) ==
    IF i > Len(frags) THEN 0
    ELSE frags[i].duration + TotalOfList(frags, i + 1)

\* C30: when select_reference_for_segment returns a non-empty file list, the
\* total duration returned is the sum of the durations of the fragments
\* listed, every file listed is the file of a fragment of the resolved
\* speaker's cluster, and no file is listed twice.
C30_TotalOfDistinctClusterFragments ==
    (pc = "reference" /\ ref_result.files # <<>>) =>
        /\ ref_result.speaker_id # None
        /\ ref_result.total_duration = TotalOfList(Returned(ref_result.files), 1)
        /\ \A p \in 1..Len(ref_result.files) :
              \E k \in 1..Len(ResolvedCluster) :
                  ResolvedCluster[k].file = ref_result.files[p]
        /\ \A p, q \in 1..Len(ref_result.files) :
              p # q => ref_result.files[p] # ref_result.files[q]

\* Two of a cluster's three fragments are returned while the other speaker's
\* fragment lies between them.
C30_Witness ==
    /\ Resolved
    /\ Cardinality(DOMAIN speaker_clusters) = 2
    /\ Len(ResolvedCluster) = 3
    /\ Len(ref_result.files) = 2
    /\ ref_result.total_duration > Anchor.duration
    /\ \E f \in Range(valid_fragments) \ Range(ResolvedCluster) :
          /\ FragmentOfFile(ref_result.files[1]).start < f.start
          /\ f.start < FragmentOfFile(ref_result.files[2]).start

(***************************************************************************)
(* AudioTimeline.save_fragment and the file names of a window's fragments  *)
(* (audio_timeline.py), with time in hundredths of a second                *)
(***************************************************************************)

\* ---- bounds of the model ----
MaxFineSegs == 2
FineTotal == 60

\* Times, in hundredths of a second, at which the oracle may place the start
\* or the end of an interval: none of them halfway between two tenths, so
\* that the rounding of the name does not depend on how a float is stored.
FinePoints == {1, 2, 3, 4, 26, 27, 51, 52}

\* f"{t:09.1f}" for a time in hundredths of a second that is not halfway
\* between two tenths.
FormatTenthsOfHundredths(t) == (t + 5) \div 10

\* filename = f"fragment_{start_time:09.1f}_{end_time:09.1f}.wav"
FineFileName(s, e) == <<FormatTenthsOfHundredths(s), FormatTenthsOfHundredths(e)>>

\* Oracle responses on the fine grid: ordered, non-overlapping intervals with
\* end > start.
RECURSIVE FineResponsesFrom(_, _)
FineResponsesFrom(lo, n) ==
    IF n = 0 THEN {<<>>}
    ELSE {<<>>} \cup
         UNION {UNION {{<<Interval(s, e)>> \o r : r \in FineResponsesFrom(e, n - 1)}
                       : e \in {x \in FinePoints : x > s}}
                : s \in {x \in FinePoints : x >= lo}}

\* segment_with_timeline over a recording of a single window, at the loop
\* "for segment in speech_segments": nothing is pending and the window ends
\* with the recording, so every interval detected is saved.
NameInit ==
    /\ chunk_duration = FineTotal
    /\ total_duration = FineTotal
    /\ current_time = 0
    /\ chunk_start = 0
    /\ chunk_end = FineTotal
    /\ carried = None
    /\ incomplete_buffer = None
    /\ detected \in FineResponsesFrom(0, MaxFineSegs)
    /\ timeline = <<>>
    /\ fragment_id = 0
    /\ metadata = None
    /\ run = 0
    /\ cached = None
    /\ run_timeline = None
    /\ exit_code = -1
    /\ error = ""
    /\ vad_calls = 1
    /\ split_audio = FALSE
    /\ split_task = "none"
    /\ split_cache = {}
    /\ NoDubbing
    /\ NoClustering
    /\ fragment_files = {}
    /\ fragments_dir_exists = TRUE
    /\ cache_file = None
    /\ pc = "save"

\* One iteration of "for segment in speech_segments": save_fragment writes
\* the file, replacing a file of the same name, and the fragment is appended.
SaveFragment ==
    /\ pc = "save"
    /\ fragment_id < Len(detected)
    /\ LET segment == detected[fragment_id + 1]
           file == FineFileName(segment.start, segment.end)
       IN  /\ fragment_files' = fragment_files \cup {file}
           /\ timeline' = Append(timeline,
                                 [id |-> fragment_id, file |-> file,
                                  start |-> segment.start, end |-> segment.end])
    /\ fragment_id' = fragment_id + 1
    /\ UNCHANGED <<total_duration, chunk_duration, current_time,
                   incomplete_buffer, chunk_start, chunk_end, carried, detected,
                   metadata, vad_calls, fragments_dir_exists, cache_file,
                   runVars, clusterVars, pc>>

\* After the loop current_time = chunk_end = total_duration: the chunk loop
\* ends and segment_with_timeline returns.
ReturnTimeline ==
    /\ pc = "save"
    /\ fragment_id = Len(detected)
    /\ current_time' = chunk_end
    /\ metadata' = SegmentationMetadata(timeline)
    /\ pc' = "segmented"
    /\ UNCHANGED <<total_duration, chunk_duration, timeline, fragment_id,
                   incomplete_buffer, chunk_start, chunk_end, carried, detected,
                   vad_calls, diskVars, runVars, clusterVars>>

NextName == SaveFragment \/ ReturnTimeline

NameSpec == NameInit /\ [][NextName]_vars

\* C26: every fragment of a Timeline has its own audio file: no two distinct
\* fragments of the Timeline carry the same file name, so there are as many
\* files in the fragments directory as fragments and none was overwritten.
C26_OneFilePerFragment ==
    /\ \A i, j \in 1..Len(timeline) :
          i # j => timeline[i].file # timeline[j].file
    /\ Cardinality(fragment_files) = Len(timeline)

(***************************************************************************)
(* Forward progress of the chunk loop                                      *)
(***************************************************************************)

\* C27: the chunk_start of every iteration of the chunk loop but the first is
\* strictly greater than the chunk_start of the iteration before it, whatever
\* the oracle answers.
C27_ChunkStartIncreases ==
    [][(IsChunkIteration /\ vad_calls > 0) => chunk_start' > chunk_start]_vars

(***************************************************************************)
(* Claims about the background audio split and the files of a run          *)
(***************************************************************************)

\* The thread was started and has neither finished nor failed.
Alive(task) == task \in {"running", "writing_vocals", "writing_accompaniment"}

\* The step is one of the thread started by the audio part.
DubSplitTaskActed ==
    /\ Alive(dub_split_task)
    /\ dub_split_task' # dub_split_task
    /\ dub_split_task' \in {"writing_vocals", "writing_accompaniment", "done",
                            "failed"}

\* C25: the background audio split and process_video share no mutable state.
\* While a split thread is at work, the extracted audio it reads is neither
\* written nor deleted; the split outputs change in steps of a split thread
\* only; and a step of a split thread leaves the fragments directory and the
\* timeline cache file alone.
C25_NoSharedMutableState ==
    [][/\ Alive(split_task) =>
              extracted_audio'[split_input] = extracted_audio[split_input]
       /\ Alive(dub_split_task) =>
              extracted_audio'[dub_split_input] = extracted_audio[dub_split_input]
       /\ split_cache' # split_cache => (SplitTaskActed \/ DubSplitTaskActed)
       /\ (SplitTaskActed \/ DubSplitTaskActed) => UNCHANGED diskVars]_vars

\* C29: within one run of process_video at most one background audio-split
\* thread is at work at any time, so that vocals.wav and accompaniment.wav
\* are never being written by two threads.
C29_AtMostOneSplitTask ==
    /\ ~(Alive(split_task) /\ Alive(dub_split_task))
    /\ ~(/\ split_task \in {"writing_vocals", "writing_accompaniment"}
         /\ dub_split_task \in {"writing_vocals", "writing_accompaniment"})

(***************************************************************************)
(* process_trans_voice (main.py): the timeline it matches subtitles with   *)
(***************************************************************************)

\* timing_tolerance = 0.5
TimingTolerance == 10

\* The entries of the SRT file: their times, and whether both texts of the
\* bilingual entry are there.
Subtitle(s, e, text) == [start |-> s, end |-> e, text |-> text]

SrtFiles ==
    {<<>>,
     <<Subtitle(0, 8, TRUE)>>,
     <<Subtitle(0, 8, FALSE), Subtitle(2, 9, TRUE)>>,
     <<Subtitle(1, 9, TRUE), Subtitle(30, 40, TRUE)>>}

\* for fragment in <the timeline>: the first fragment of the least total_diff
\* among those whose start is within the tolerance.  best_diff is infinite
\* exactly while best_match is None.
RECURSIVE BestMatch(_, _, _, _)
BestMatch(subtitle, fragments, best_match, best_diff) ==
    IF fragments = <<>> THEN best_match
    ELSE LET fragment == Head(fragments)
             start_diff == Abs(subtitle.start - fragment.start)
             end_diff == Abs(subtitle.end - fragment.end)
             total_diff == start_diff + end_diff
         IN  IF /\ start_diff <= TimingTolerance
                /\ (best_match = None \/ total_diff < best_diff)
             THEN BestMatch(subtitle, Tail(fragments), fragment, total_diff)
             ELSE BestMatch(subtitle, Tail(fragments), best_match, best_diff)

\* Step 2 over the subtitles from the i-th on: an entry without text is
\* skipped, and so is one whose best fragment has no file.
RECURSIVE MatchedSegments(_, _, _, _)
MatchedSegments(subs, i, fragments, files) ==
    IF i > Len(subs) THEN <<>>
    ELSE LET best_match == BestMatch(subs[i], fragments, None, 0)
         IN  (IF /\ subs[i].text
                 /\ best_match # None
                 /\ best_match.file \in files
              THEN <<[subtitle_index |-> i - 1, fragment_info |-> best_match]>>
              ELSE <<>>)
             \o MatchedSegments(subs, i + 1, fragments, files)

\* What step 2 left: it raised, or it made these segments.
Matched(raised, segments) == [raised |-> raised, segments |-> segments]

\* A call of process_trans_voice whose SRT file exists and whose server
\* answers.
VoiceStart ==
    /\ pc = "idle"
    /\ run < MaxRuns
    /\ run' = run + 1
    /\ cached' = None
    /\ run_timeline' = None
    /\ matched_segments' = None
    /\ exit_code' = -1
    /\ error' = ""
    /\ pc' = "voice_load"
    /\ UNCHANGED <<segVars, vad_calls, diskVars, splitVars, dubVars, subtitles,
                   clusterVars>>

\* load_timeline_cache and the branch on its result.  A cached timeline whose
\* fragments directory is there is the timeline of the call; else
\* cached_timeline stays as loaded (None, or empty), the input file is asked
\* for and the fragments directory is made.
VoiceLoadCache ==
    /\ pc = "voice_load"
    /\ LET loaded == load_timeline_cache(cache_file, fragment_files,
                                         fragments_dir_exists)
       IN  IF CacheHit(loaded)
           THEN IF loaded.metadata.fragments_dir /\ fragments_dir_exists
                THEN /\ cached' = loaded
                     /\ run_timeline' = loaded
                     /\ pc' = "match"
                     /\ UNCHANGED <<fragments_dir_exists, exit_code, error>>
                ELSE /\ cached' = None
                     /\ fragments_dir_exists' = TRUE
                     /\ pc' = "voice_extract"
                     /\ UNCHANGED <<run_timeline, exit_code, error>>
           ELSE /\ cached' = loaded
                /\ \E input_exists \in BOOLEAN :
                      IF input_exists
                      THEN /\ fragments_dir_exists' = TRUE
                           /\ pc' = "voice_extract"
                           /\ UNCHANGED <<exit_code, error>>
                      ELSE /\ exit_code' = 1
                           /\ error' = "input"
                           /\ pc' = "idle"
                           /\ UNCHANGED fragments_dir_exists
                /\ UNCHANGED run_timeline
    /\ UNCHANGED <<segVars, vad_calls, fragment_files, cache_file, run,
                   splitVars, dubVars, voiceVars, clusterVars>>

\* Step 0a: extract_audio; on failure the call returns 1.
VoiceExtractAudio ==
    /\ pc = "voice_extract"
    /\ \E ok \in BOOLEAN :
          IF ok
          THEN /\ pc' = "segment"
               /\ current_time' = 0
               /\ timeline' = <<>>
               /\ fragment_id' = 0
               /\ incomplete_buffer' = None
               /\ chunk_start' = 0
               /\ chunk_end' = 0
               /\ carried' = None
               /\ detected' = <<>>
               /\ metadata' = None
               /\ UNCHANGED <<exit_code, error>>
          ELSE /\ exit_code' = 1
               /\ error' = "extract"
               /\ pc' = "idle"
               /\ UNCHANGED <<current_time, timeline, fragment_id,
                              incomplete_buffer, chunk_start, chunk_end,
                              carried, detected, metadata>>
    /\ UNCHANGED <<total_duration, chunk_duration, vad_calls, diskVars, run,
                   cached, run_timeline, splitVars, dubVars, voiceVars,
                   clusterVars>>

\* Step 0b, after segment_with_timeline: timeline and metadata are the pair
\* it returned, and save_timeline_cache writes them (its result is ignored).
VoiceSaveCache ==
    /\ pc = "segmented"
    /\ run_timeline' = [timeline |-> timeline, metadata |-> Metadata(timeline)]
    /\ cache_file' \in {CacheData(timeline, Metadata(timeline)), cache_file,
                        Corrupt}
    /\ pc' = "match"
    /\ UNCHANGED <<segVars, vad_calls, fragment_files, fragments_dir_exists,
                   run, cached, exit_code, error, splitVars, dubVars,
                   voiceVars, clusterVars>>

\* except Exception around extraction and segmentation: return 1.
VoiceHandleSegmentationError ==
    /\ pc = "raised"
    /\ exit_code' = 1
    /\ error' = "vad"
    /\ pc' = "idle"
    /\ UNCHANGED <<segVars, vad_calls, diskVars, run, cached, run_timeline,
                   splitVars, dubVars, voiceVars, clusterVars>>

\* Steps 1 and 2.  No subtitles: return 1.  The fragments are looked for in
\* cached_timeline: at the first subtitle with text, iterating None raises,
\* which the surrounding except turns into return 1.  No match: return 1.
MatchSubtitles ==
    /\ pc = "match"
    /\ IF subtitles = <<>>
       THEN /\ exit_code' = 1
            /\ error' = "subtitles"
            /\ pc' = "idle"
            /\ UNCHANGED matched_segments
       ELSE IF cached = None /\ \E i \in 1..Len(subtitles) : subtitles[i].text
       THEN /\ matched_segments' = Matched(TRUE, <<>>)
            /\ exit_code' = 1
            /\ error' = "raised"
            /\ pc' = "idle"
       ELSE LET fragments == IF cached = None THEN <<>> ELSE cached.timeline
                segments == MatchedSegments(subtitles, 1, fragments,
                                            fragment_files)
            IN  /\ matched_segments' = Matched(FALSE, segments)
                /\ IF segments = <<>>
                   THEN /\ exit_code' = 1
                        /\ error' = "no_match"
                        /\ pc' = "idle"
                   ELSE /\ pc' = "clone"
                        /\ UNCHANGED <<exit_code, error>>
    /\ UNCHANGED <<segVars, vad_calls, diskVars, run, cached, run_timeline,
                   splitVars, dubVars, subtitles, clusterVars>>

\* Steps 3 and 4: the matched segments are cloned and concatenated over
\* cached_metadata's total duration; no cloned segment: return 1.
CloneSegments ==
    /\ pc = "clone"
    /\ \E cloned \in BOOLEAN :
          IF ~cloned
          THEN /\ exit_code' = 1
               /\ error' = "clone"
          ELSE IF cached = None
          THEN /\ exit_code' = 1
               /\ error' = "raised"
          ELSE /\ exit_code' = 0
               /\ error' = ""
    /\ pc' = "idle"
    /\ UNCHANGED <<segVars, vad_calls, diskVars, run, cached, run_timeline,
                   splitVars, dubVars, voiceVars, clusterVars>>

\* Calls of process_trans_voice for one SRT file over a recording of one short
\* window, the first of them without a cache.
VoiceInit ==
    /\ chunk_duration = DefaultChunkDuration
    /\ total_duration = ShortChunk
    /\ SegStart
    /\ run = 0
    /\ cached = None
    /\ run_timeline = None
    /\ exit_code = -1
    /\ error = ""
    /\ vad_calls = 0
    /\ split_audio = FALSE
    /\ split_task = "none"
    /\ split_cache = {}
    /\ generate_subtitle = TRUE
    /\ generate_audio = FALSE
    /\ stage = "subtitle"
    /\ split_input = ""
    /\ dub_split_task = "none"
    /\ dub_split_input = ""
    /\ extracted_audio = [p \in AudioPaths |-> ""]
    /\ subtitles \in SrtFiles
    /\ matched_segments = None
    /\ NoClustering
    /\ EmptyDisk
    /\ pc = "idle"

NextVoice ==
    \/ VoiceStart
    \/ VoiceLoadCache
    \/ VoiceExtractAudio
    \/ ProcessChunk
    \/ VadFails
    \/ FinishSegmentation
    \/ VoiceSaveCache
    \/ VoiceHandleSegmentationError
    \/ MatchSubtitles
    \/ CloneSegments

VoiceSpec == VoiceInit /\ [][NextVoice]_vars

\* C28: in a call of process_trans_voice, whether its Timeline was loaded from
\* the cache or made by segmentation in the same call, the matching step does
\* not fail for lack of a cached Timeline and the segments it makes are those
\* of matching the subtitles against the Timeline the call holds.
C28_MatchesTimelineHeld ==
    matched_segments # None =>
        /\ ~matched_segments.raised
        /\ matched_segments.segments =
              MatchedSegments(subtitles, 1, run_timeline.timeline,
                              fragment_files)

====
